---- MODULE Spec2Model ----
(***************************************************************************)
(* Employee tracker: the Express request layer (server/routes.ts) over the *)
(* Drizzle/PostgreSQL storage layer (server/storage.ts, shared/schema.ts). *)
(*                                                                         *)
(* Every `await storage.x()` of a handler is one atomic database statement *)
(* followed by the handler's synchronous continuation up to its next await;*)
(* statements of different requests interleave freely.  Time is counted in *)
(* ticks of half a day.                                                    *)
(***************************************************************************)
EXTENDS Integers, FiniteSets, Sequences, TLC

\* ---------------------------------------------------------------- bounds
MaxAdminOps  == 1   \* direct storage mutations (admin CRUD) in one behaviour
MaxTicks     == 2   \* clock advances in one behaviour
MaxSessions  == 1   \* session rows ever created
MaxReports   == 2   \* report rows ever created
MaxEmployees == 2   \* employee rows ever created (the seeded one included)

\* ------------------------------------------------------ program constants
SessionDays  == 7
SessionTTL   == SessionDays * 2
MaxTime      == SessionTTL + MaxTicks

EmployeeIds  == {"EMP001", "EMP002"}
Names        == {"John Doe", "Jane Roe", "Roe, Jane"}
Usernames    == {"admin", "root"}
\* two passwords of 73 bytes that differ in the last byte only
LongPasswords == {"<72 bytes>x", "<72 bytes>y"}
Passwords    == {"employee123", "admin123"} \cup LongPasswords
AdminUuid    == MaxEmployees + 1

\* -------------------------------------------------------------- bcrypt
\* bcrypt uses the first 72 bytes of the plaintext only
Truncate(p) == IF p \in LongPasswords THEN "<72 bytes>" ELSE p

\* bcrypt.hash(plaintext, 10): a digest embedding a per-call salt.
Hash(p, salt) == [alg |-> "bcrypt", salt |-> salt, of |-> Truncate(p)]

\* bcrypt.compare(plaintext, digest)
Compare(p, h) == h.alg = "bcrypt" /\ h.of = Truncate(p)

\* new Date().toISOString().split('T')[0]: the UTC calendar day of an instant
DateOf(t) == t \div 2

VARIABLES
  employees,    \* table employees: set of rows
  admins,       \* table admins: set of rows
  dailyReports, \* table daily_reports: set of rows
  sessions,     \* table sessions: set of rows
  now,          \* the wall clock (new Date())
  req,          \* per connection slot: the request in flight
  last,         \* the response sent by the step just taken, with what its request met
  issued,       \* counters of generated keys: employee uuids, report uuids, session ids
  used,         \* how many admin operations and ticks have happened
  submitted,    \* history: successful submissions
  loggedOut     \* history: tokens whose logout request succeeded

vars == <<employees, admins, dailyReports, sessions, now, req, last, issued, used,
          submitted, loggedOut>>

store == <<employees, admins, dailyReports, sessions>>

\* ------------------------------------------------------------ JSON inputs
Num(n)  == [t |-> "number", n |-> n, whole |-> TRUE]
Frac(n) == [t |-> "number", n |-> n, whole |-> FALSE]   \* n + 0.5
Str(x)  == [t |-> "string", s |-> x]

RequiredCounters == {"numberOfDials", "connectedCalls", "positiveProspect",
                     "deadCalls", "demos", "admission", "clientVisit",
                     "clientClosing", "backdoorCalls"}
IdentityFields   == {"employeeId", "employeeName", "submissionDate"}

NoBody == [none |-> TRUE]

\* the body the report form of the client posts: the counters only
ClientBody == [c \in RequiredCounters |-> Num(1)]
\* a body that also carries the three identity columns of the insert schema
FullBody   == ClientBody @@ [employeeId |-> Str("EMP002"),
                             employeeName |-> Str("Jane Roe"),
                             submissionDate |-> Str("1999-01-01")]
SubmitBodies ==
  { ClientBody,
    FullBody,
    FullBody @@ [postersDone |-> Num(4)],
    [FullBody EXCEPT !.numberOfDials = Num(-1)],
    [FullBody EXCEPT !.demos = Str("3")],
    [FullBody EXCEPT !.demos = Frac(1)],
    [c \in (DOMAIN FullBody) \ {"deadCalls"} |-> FullBody[c]] }

\* insertDailyReportSchema: createInsertSchema(dailyReports) without id and
\* createdAt requires the notNull columns employeeId, employeeName and
\* submissionDate as strings; the counters are z.number().min(0).
InsertDailyReportSchemaOk(b) ==
  /\ \A f \in IdentityFields : f \in DOMAIN b /\ b[f].t = "string"
  /\ \A c \in RequiredCounters :
        c \in DOMAIN b /\ b[c].t = "number" /\ b[c].n >= 0
  /\ "postersDone" \in DOMAIN b =>
        b.postersDone.t = "number" /\ b.postersDone.n >= 0

\* login bodies; "" stands for an empty or missing field (both fail min(1))
EmployeeLoginBodies == [employeeId : EmployeeIds \cup {""}, password : Passwords \cup {""}]
AdminLoginBodies    == [username : Usernames \cup {""}, password : Passwords \cup {""}]

\* employeeLoginSchema / adminLoginSchema
EmployeeLoginSchemaOk(b) == b.employeeId # "" /\ b.password # ""
AdminLoginSchemaOk(b)    == b.username # "" /\ b.password # ""

\* the Authorization header: absent, or a value with or without the scheme
NoHeader == [present |-> FALSE, bearer |-> FALSE, token |-> 0]
Headers  == {NoHeader} \cup
            [present : {TRUE}, bearer : BOOLEAN, token : 0..MaxSessions]

\* req.headers.authorization?.replace('Bearer ', ''); 0 is the empty string
ExtractSessionId(h) == IF h.present THEN h.token ELSE 0

\* query string of the admin report endpoints
Absent     == [k |-> "absent", v |-> 0]
Garbage    == [k |-> "garbage", v |-> 0]
Val(v)     == [k |-> "value", v |-> v]
NoFilter   == [employeeId |-> "", startDate |-> Absent, endDate |-> Absent,
               page |-> Absent, limit |-> Absent]
Queries ==
  { NoFilter,
    [NoFilter EXCEPT !.employeeId = "EMP001"],
    [NoFilter EXCEPT !.startDate = Val(0), !.endDate = Val(0)],
    [NoFilter EXCEPT !.startDate = Garbage],
    [NoFilter EXCEPT !.endDate = Garbage],
    [NoFilter EXCEPT !.page = Garbage],
    [NoFilter EXCEPT !.page = Val(2), !.limit = Val(1)],
    [NoFilter EXCEPT !.limit = Garbage] }

\* new Date(str).toISOString() throws a RangeError on an Invalid Date
DateParamThrows(q) == q.startDate.k = "garbage" \/ q.endDate.k = "garbage"

\* ------------------------------------------------------------ the store
Salts == {1, 2}

\* db.select().from(employees).where(eq(employees.id, id))
GetEmployee(id) == {e \in employees : e.id = id}
\* db.select().from(employees).where(eq(employees.employeeId, employeeId))
GetEmployeeByEmployeeId(eid) == {e \in employees : e.employeeId = eid}
GetAdmin(id) == {a \in admins : a.id = id}
GetAdminByUsername(u) == {a \in admins : a.username = u}

\* validateEmployeeCredentials: the row, when it exists and the password verifies
ValidateEmployeeCredentials(eid, pw) ==
  {e \in GetEmployeeByEmployeeId(eid) : Compare(pw, e.passwordHash)}
ValidateAdminCredentials(u, pw) ==
  {a \in GetAdminByUsername(u) : Compare(pw, a.passwordHash)}

\* getSession: where id = sessionId and expires_at >= now
GetSession(sid) == {x \in sessions : x.id = sid /\ x.expiresAt >= now}

\* the instant new Date("YYYY-MM-DD") denotes: UTC midnight of that day
ParseDate(d) == d * 2

\* mutant: the date is compared without its conversion to a calendar day
CheckExistingReportInstant(eid, date) ==
  {r \in dailyReports : r.employeeId = eid /\ r.submissionDate = date}

\* checkExistingReport(employeeId, date)
CheckExistingReport(eid, date) ==
  {r \in dailyReports : r.employeeId = eid /\ r.submissionDate = DateOf(date)}

\* --------------------------------------------------------- getDailyReports
\* the filters object of getDailyReports; a limit or offset of 0 stands for
\* every falsy value (undefined, NaN, 0), which adds no clause to the query
NoFilters == [employeeId |-> "", startDate |-> Absent, endDate |-> Absent,
              limit |-> 0, offset |-> 0]

\* parseInt(param) with the default of the destructuring; NaN is given as 0
ParseInt(param, default) ==
  IF param.k = "absent" THEN default
  ELSE IF param.k = "garbage" THEN 0
  ELSE param.v

DefaultLimit == 25

\* GET /api/admin/reports: filters built from req.query
ListFilters(q) ==
  [employeeId |-> q.employeeId, startDate |-> q.startDate, endDate |-> q.endDate,
   limit  |-> ParseInt(q.limit, DefaultLimit),
   offset |-> IF q.page.k = "garbage" \/ q.limit.k = "garbage" THEN 0
              ELSE (ParseInt(q.page, 1) - 1) * ParseInt(q.limit, DefaultLimit)]

\* GET /api/admin/reports/export: filters built from req.query
ExportFilters(q) ==
  [employeeId |-> q.employeeId, startDate |-> q.startDate, endDate |-> q.endDate,
   limit |-> 0, offset |-> 0]

\* mutant: the lower bound of the date range is exclusive
MatchesAfterStart(r, f) ==
  /\ f.employeeId # "" => r.employeeId = f.employeeId
  /\ f.startDate.k = "value" => r.submissionDate > DateOf(ParseDate(f.startDate.v))
  /\ f.endDate.k = "value" => r.submissionDate <= DateOf(ParseDate(f.endDate.v))

\* the conjunction of the conditions pushed for the truthy filters
Matches(r, f) ==
  /\ f.employeeId # "" => r.employeeId = f.employeeId
  /\ f.startDate.k = "value" => r.submissionDate >= DateOf(ParseDate(f.startDate.v))
  /\ f.endDate.k = "value" => r.submissionDate <= DateOf(ParseDate(f.endDate.v))

\* mutant: rows of one date are ordered oldest first
MayPrecedeOldestFirst(a, b) ==
  \/ a.submissionDate > b.submissionDate
  \/ a.submissionDate = b.submissionDate /\ a.createdAt <= b.createdAt

\* orderBy(desc(submissionDate), desc(createdAt)): a may come before b
MayPrecede(a, b) ==
  \/ a.submissionDate > b.submissionDate
  \/ a.submissionDate = b.submissionDate /\ a.createdAt >= b.createdAt

\* every order of the rows the ORDER BY clause allows (ties are not ordered)
OrderBy(rows) ==
  {s \in [1..Cardinality(rows) -> rows] :
     \A i, j \in 1..Cardinality(rows) : i < j => s[i] # s[j] /\ MayPrecede(s[i], s[j])}

\* OFFSET offset LIMIT limit
LimitOffset(s, limit, offset) ==
  LET from == IF offset > 0 THEN offset + 1 ELSE 1
      to   == IF limit > 0 /\ from + limit - 1 < Len(s) THEN from + limit - 1 ELSE Len(s)
  IN  SubSeq(s, from, to)

\* getDailyReports(filters): the results the store may return
GetDailyReports(f) ==
  {LimitOffset(s, f.limit, f.offset) : s \in OrderBy({r \in dailyReports : Matches(r, f)})}

\* ------------------------------------------------------------------ CSV
\* a text is the sequence of its pieces, each comma a piece of its own
Comma == <<",">>

\* the text of a string value
Chars(x) == IF x = "Roe, Jane" THEN <<"Roe">> \o Comma \o <<" Jane">> ELSE <<x>>

\* fields.join(','): the texts of the fields with a comma between them
RECURSIVE JoinComma(_)
JoinComma(fields) ==
  IF Len(fields) = 1 THEN Head(fields)
  ELSE Head(fields) \o Comma \o JoinComma(Tail(fields))

\* the counter columns in the order of the export
CsvCounters == <<"numberOfDials", "connectedCalls", "positiveProspect", "deadCalls",
                 "demos", "admission", "clientVisit", "clientClosing", "backdoorCalls">>

\* csvHeader, without its line end
CsvHeader ==
  JoinComma(<< <<"Date">>, <<"Employee ID">>, <<"Employee Name">>, <<"Dials">>,
               <<"Connected Calls">>, <<"Positive Prospect">>, <<"Dead Calls">>,
               <<"Demos">>, <<"Admission">>, <<"Client Visit">>, <<"Client Closing">>,
               <<"Backdoor Calls">>, <<"Posters Done">> >>)

\* the template literal of one report; postersDone || 0 is the stored number
CsvLine(r) ==
  JoinComma(<< <<ToString(r.submissionDate)>>, Chars(r.employeeId), Chars(r.employeeName) >>
            \o [i \in 1..Len(CsvCounters) |-> <<ToString(r.counters[CsvCounters[i]])>>]
            \o << <<ToString(r.postersDone)>> >>)

\* csvHeader + csvData: the lines of the attachment
CsvExport(rows) == <<CsvHeader>> \o [i \in 1..Len(rows) |-> CsvLine(rows[i])]

\* ------------------------------------------------------- request slots
Slots == {1, 2}

NoEmp == [employeeId |-> "", employeeName |-> ""]
Idle  == [pc |-> "idle", endpoint |-> "none", token |-> 0, found |-> "n/a",
          userId |-> 0, body |-> NoBody, emp |-> NoEmp, today |-> 0, seen |-> {},
          malformed |-> FALSE, ran |-> FALSE, orphan |-> FALSE, fault |-> "none",
          filters |-> NoFilters, rows |-> <<>>, text |-> <<>>]

NoResponse == [endpoint |-> "none", token |-> 0, found |-> "n/a", malformed |-> FALSE,
               ran |-> FALSE, orphan |-> FALSE, fault |-> "none",
               emp |-> NoEmp, today |-> 0, seen |-> {},
               filters |-> NoFilters, rows |-> <<>>, text |-> <<>>,
               status |-> 0, message |-> ""]

EmployeeEndpoints == {"employeeLogout", "employeeMe", "submit"}
AdminEndpoints    == {"adminLogout", "adminMe", "reports", "export"}

\* a new request takes the lowest free connection slot
Free(s) == req[s].pc = "idle" /\ \A t \in Slots : t < s => req[t].pc # "idle"

\* res.status(status).json(...) ends the request
Answer(s, r, status, message) ==
  /\ req'  = [req EXCEPT ![s] = Idle]
  /\ last' = [endpoint |-> r.endpoint, token |-> r.token, found |-> r.found,
              malformed |-> r.malformed, ran |-> r.ran, orphan |-> r.orphan,
              fault |-> r.fault, emp |-> r.emp, today |-> r.today, seen |-> r.seen,
              filters |-> r.filters, rows |-> r.rows, text |-> r.text,
              status |-> status, message |-> message]

\* the handler awaits its next statement; nothing is sent
Await(s, r) ==
  /\ req'  = [req EXCEPT ![s] = r]
  /\ last' = NoResponse

\* a step of the store or the clock: no request moves, nothing is sent
Quiet == req' = req /\ last' = NoResponse

\* what the session table holds for a presented token when it is looked up
Lookup(sid, kind) ==
  IF sid = 0 THEN "noToken"
  ELSE IF \A x \in sessions : x.id # sid THEN "unknown"
  ELSE IF GetSession(sid) = {} THEN "expired"
  ELSE IF \E x \in GetSession(sid) : x.userType # kind THEN "wrongKind"
  ELSE "ok"

Init ==
  /\ employees = {[id |-> 1, employeeId |-> "EMP001", employeeName |-> "John Doe",
                   passwordHash |-> Hash("employee123", 1)]}
  /\ admins = {[id |-> AdminUuid, username |-> "admin",
                passwordHash |-> Hash("admin123", 1)]}
  /\ dailyReports = {}
  /\ sessions = {}
  /\ now = 0
  /\ req = [s \in Slots |-> Idle]
  /\ last = NoResponse
  /\ issued = [employee |-> 1, report |-> 0, session |-> 0]
  /\ used = [adm |-> 0, tick |-> 0]
  /\ submitted = {}
  /\ loggedOut = {}

\* ------------------------------------------------------------ sessions
\* mutant: a principal holds one session, a login replaces the earlier ones
CreateSessionReplacing(userId, userType) ==
  /\ issued.session < MaxSessions
  /\ issued' = [issued EXCEPT !.session = @ + 1]
  /\ sessions' = {x \in sessions : x.userId # userId} \cup
        {[id |-> issued.session + 1, userId |-> userId, userType |-> userType,
          expiresAt |-> now + SessionTTL, createdAt |-> now]}

\* createSession(userId, userType): expiresAt = now + 7 days, a new id
CreateSession(userId, userType) ==
  /\ issued.session < MaxSessions
  /\ issued' = [issued EXCEPT !.session = @ + 1]
  /\ sessions' = sessions \cup
        {[id |-> issued.session + 1, userId |-> userId, userType |-> userType,
          expiresAt |-> now + SessionTTL, createdAt |-> now]}

\* mutant: logout leaves the row in place
DeleteSessionNoop(sid) == sessions' = sessions

\* mutant: logout ends every session of the principal of the token
DeleteSessionsOfPrincipal(sid) ==
  sessions' = {x \in sessions : \A y \in sessions : y.id = sid => x.userId # y.userId}

\* deleteSession(sessionId)
DeleteSession(sid) == sessions' = {x \in sessions : x.id # sid}

\* mutant: a session is swept only after the instant of its expiry
CleanSessionsPastExpiry ==
  /\ \E x \in sessions : x.expiresAt < now
  /\ sessions' = {x \in sessions : ~(x.expiresAt < now)}
  /\ Quiet
  /\ UNCHANGED <<employees, admins, dailyReports, now, issued, used, submitted, loggedOut>>

\* mutant: only the sessions that expire at the instant of the sweep are deleted
CleanSessionsAtExpiry ==
  /\ \E x \in sessions : x.expiresAt = now
  /\ sessions' = {x \in sessions : ~(x.expiresAt = now)}
  /\ Quiet
  /\ UNCHANGED <<employees, admins, dailyReports, now, issued, used, submitted, loggedOut>>

\* setInterval(cleanExpiredSessions, 1 hour): delete where expires_at <= now
CleanExpiredSessions ==
  /\ \E x \in sessions : x.expiresAt <= now
  /\ sessions' = {x \in sessions : ~(x.expiresAt <= now)}
  /\ Quiet
  /\ UNCHANGED <<employees, admins, dailyReports, now, issued, used, submitted, loggedOut>>

\* -------------------------------------------------------------- login
\* what the account table holds for the credentials of a login request
Account(b, rows) ==
  IF b.password = "" \/ \E f \in DOMAIN b : b[f] = "" THEN "n/a"
  ELSE IF rows = {} THEN "noAccount"
  ELSE IF \A a \in rows : ~Compare(b.password, a.passwordHash) THEN "badPassword"
  ELSE "ok"

\* mutant: an unknown employee id is told apart from a wrong password
EmployeeLoginEnumerates(s, b) ==
  /\ Free(s)
  /\ LET r == [Idle EXCEPT !.endpoint = "employeeLogin",
                           !.malformed = ~EmployeeLoginSchemaOk(b),
                           !.found = Account(b, GetEmployeeByEmployeeId(b.employeeId))] IN
     IF ~EmployeeLoginSchemaOk(b)
       THEN Answer(s, r, 400, "Invalid input")
     ELSE IF GetEmployeeByEmployeeId(b.employeeId) = {}
       THEN Answer(s, [r EXCEPT !.ran = TRUE], 404, "Employee not found")
     ELSE IF ValidateEmployeeCredentials(b.employeeId, b.password) = {}
       THEN Answer(s, [r EXCEPT !.ran = TRUE], 401, "Invalid employee ID or password")
     ELSE \E e \in ValidateEmployeeCredentials(b.employeeId, b.password) :
            Await(s, [r EXCEPT !.pc = "create", !.userId = e.id, !.ran = TRUE])
  /\ UNCHANGED <<store, now, issued, used, submitted, loggedOut>>

\* POST /api/employee/login up to the end of validateEmployeeCredentials
EmployeeLogin(s, b) ==
  /\ Free(s)
  /\ LET r == [Idle EXCEPT !.endpoint = "employeeLogin",
                           !.malformed = ~EmployeeLoginSchemaOk(b),
                           !.found = Account(b, GetEmployeeByEmployeeId(b.employeeId))] IN
     IF ~EmployeeLoginSchemaOk(b)
       THEN Answer(s, r, 400, "Invalid input")
     ELSE IF ValidateEmployeeCredentials(b.employeeId, b.password) = {}
       THEN Answer(s, [r EXCEPT !.ran = TRUE], 401, "Invalid employee ID or password")
     ELSE \E e \in ValidateEmployeeCredentials(b.employeeId, b.password) :
            Await(s, [r EXCEPT !.pc = "create", !.userId = e.id, !.ran = TRUE])
  /\ UNCHANGED <<store, now, issued, used, submitted, loggedOut>>

\* POST /api/employee/login: createSession and the answer
EmployeeLoginCreate(s) ==
  /\ req[s].pc = "create" /\ req[s].endpoint = "employeeLogin"
  /\ CreateSession(req[s].userId, "employee")
  /\ Answer(s, [req[s] EXCEPT !.token = issued.session + 1], 200, "Login successful")
  /\ UNCHANGED <<employees, admins, dailyReports, now, used, submitted, loggedOut>>

\* POST /api/admin/login up to the end of validateAdminCredentials
AdminLogin(s, b) ==
  /\ Free(s)
  /\ LET r == [Idle EXCEPT !.endpoint = "adminLogin",
                           !.malformed = ~AdminLoginSchemaOk(b),
                           !.found = Account(b, GetAdminByUsername(b.username))] IN
     IF ~AdminLoginSchemaOk(b)
       THEN Answer(s, r, 400, "Invalid input")
     ELSE IF ValidateAdminCredentials(b.username, b.password) = {}
       THEN Answer(s, [r EXCEPT !.ran = TRUE], 401, "Invalid username or password")
     ELSE \E a \in ValidateAdminCredentials(b.username, b.password) :
            Await(s, [r EXCEPT !.pc = "create", !.userId = a.id, !.ran = TRUE])
  /\ UNCHANGED <<store, now, issued, used, submitted, loggedOut>>

\* POST /api/admin/login: createSession and the answer
AdminLoginCreate(s) ==
  /\ req[s].pc = "create" /\ req[s].endpoint = "adminLogin"
  /\ CreateSession(req[s].userId, "admin")
  /\ Answer(s, [req[s] EXCEPT !.token = issued.session + 1], 200, "Login successful")
  /\ UNCHANGED <<employees, admins, dailyReports, now, used, submitted, loggedOut>>

\* ------------------------------------------------------ authentication
\* whether the input of a scoped request fails its route's validation
Malformed(ep, b) ==
  CASE ep = "submit" -> ~InsertDailyReportSchemaOk(b)
    [] ep \in {"reports", "export"} ->
         \E f \in {"startDate", "endDate", "page", "limit"} : b[f].k = "garbage"
    [] OTHER -> FALSE

\* mutant: the kind of the session is not compared with the kind of the route
AuthenticateAnyKind(s, kind, ep, h, b) ==
  /\ Free(s)
  /\ LET sid == ExtractSessionId(h)
         r   == [Idle EXCEPT !.endpoint = ep, !.token = sid,
                             !.found = Lookup(sid, kind),
                             !.malformed = Malformed(ep, b)] IN
     IF sid = 0
       THEN Answer(s, r, 401, "No session token provided")
     ELSE IF GetSession(sid) = {}
       THEN Answer(s, r, 401, "Invalid or expired session")
     ELSE \E x \in GetSession(sid) :
            Await(s, [r EXCEPT !.pc = "handler", !.userId = x.userId, !.body = b,
                               !.seen = IF ep = "submit" THEN {z.report : z \in submitted} ELSE {}])
  /\ UNCHANGED <<store, now, issued, used, submitted, loggedOut>>

\* mutant: a session of the wrong kind is refused as a permission error
AuthenticateForbidden(s, kind, ep, h, b) ==
  /\ Free(s)
  /\ LET sid == ExtractSessionId(h)
         r   == [Idle EXCEPT !.endpoint = ep, !.token = sid,
                             !.found = Lookup(sid, kind),
                             !.malformed = Malformed(ep, b)] IN
     IF sid = 0
       THEN Answer(s, r, 401, "No session token provided")
     ELSE IF GetSession(sid) = {}
       THEN Answer(s, r, 401, "Invalid or expired session")
     ELSE IF \E x \in GetSession(sid) : x.userType # kind
       THEN Answer(s, r, 403, "Forbidden")
     ELSE \E x \in GetSession(sid) :
            Await(s, [r EXCEPT !.pc = "handler", !.userId = x.userId, !.body = b,
                               !.seen = IF ep = "submit" THEN {z.report : z \in submitted} ELSE {}])
  /\ UNCHANGED <<store, now, issued, used, submitted, loggedOut>>

\* authenticateEmployee / authenticateAdmin: the middleware of a scoped route
Authenticate(s, kind, ep, h, b) ==
  /\ Free(s)
  /\ LET sid == ExtractSessionId(h)
         r   == [Idle EXCEPT !.endpoint = ep, !.token = sid,
                             !.found = Lookup(sid, kind),
                             !.malformed = Malformed(ep, b)] IN
     IF sid = 0
       THEN Answer(s, r, 401, "No session token provided")
     ELSE IF GetSession(sid) = {} \/ \E x \in GetSession(sid) : x.userType # kind
       THEN Answer(s, r, 401, "Invalid or expired session")
     ELSE \E x \in GetSession(sid) :
            Await(s, [r EXCEPT !.pc = "handler", !.userId = x.userId, !.body = b,
                               !.seen = IF ep = "submit" THEN {z.report : z \in submitted} ELSE {}])
  /\ UNCHANGED <<store, now, issued, used, submitted, loggedOut>>

\* a request to an employee-scoped route arrives and passes authenticateEmployee
AuthenticateEmployee(s, ep, h, b) == Authenticate(s, "employee", ep, h, b)
\* a request to an admin-scoped route arrives and passes authenticateAdmin
AuthenticateAdmin(s, ep, h, q) == Authenticate(s, "admin", ep, h, q)

\* ------------------------------------------------------ employee routes
Handling(s, ep) == req[s].pc = "handler" /\ req[s].endpoint = ep

\* the request in slot s as its handler starts to run
Entered(s, principal) == [req[s] EXCEPT !.ran = TRUE, !.orphan = (principal = {})]

\* POST /api/employee/logout
EmployeeLogout(s) ==
  /\ Handling(s, "employeeLogout")
  /\ DeleteSession(req[s].token)
  /\ Answer(s, Entered(s, GetEmployee(req[s].userId)), 200, "Logout successful")
  /\ loggedOut' = loggedOut \cup {req[s].token}
  /\ UNCHANGED <<employees, admins, dailyReports, now, issued, used, submitted>>

\* mutant: the employee record is not looked for
EmployeeMeNoCheck(s) ==
  /\ Handling(s, "employeeMe")
  /\ Answer(s, Entered(s, GetEmployee(req[s].userId)), 200, "")
  /\ UNCHANGED <<store, now, issued, used, submitted, loggedOut>>

\* GET /api/employee/me
EmployeeMe(s) ==
  /\ Handling(s, "employeeMe")
  /\ LET r == Entered(s, GetEmployee(req[s].userId)) IN
     IF GetEmployee(req[s].userId) = {}
       THEN Answer(s, r, 404, "Employee not found")
       ELSE Answer(s, r, 200, "")
  /\ UNCHANGED <<store, now, issued, used, submitted, loggedOut>>

\* POST /api/reports/submit: getEmployee, then the body is parsed and the
\* current date taken
SubmitGetEmployee(s) ==
  /\ Handling(s, "submit")
  /\ LET r == Entered(s, GetEmployee(req[s].userId)) IN
     IF GetEmployee(req[s].userId) = {}
       THEN Answer(s, r, 404, "Employee not found")
     ELSE IF ~InsertDailyReportSchemaOk(req[s].body)
       THEN Answer(s, r, 400, "Invalid input")
     ELSE \E e \in GetEmployee(req[s].userId) :
            Await(s, [r EXCEPT !.pc = "check", !.today = DateOf(now),
                               !.emp = [employeeId |-> e.employeeId,
                                        employeeName |-> e.employeeName]])
  /\ UNCHANGED <<store, now, issued, used, submitted, loggedOut>>

\* POST /api/reports/submit: checkExistingReport(employeeId, new Date(today))
SubmitCheck(s) ==
  /\ req[s].pc = "check"
  /\ IF CheckExistingReport(req[s].emp.employeeId, ParseDate(req[s].today)) # {}
       THEN Answer(s, req[s], 409, "Report for today already submitted")
       ELSE Await(s, [req[s] EXCEPT !.pc = "insert"])
  /\ UNCHANGED <<store, now, issued, used, submitted, loggedOut>>

\* mutant: the employee identity of the parsed body is not overridden
NewReportFromBody(r, id) ==
  [id |-> id,
   employeeId |-> r.body.employeeId.s,
   employeeName |-> r.body.employeeName.s,
   counters |-> [c \in RequiredCounters |-> r.body[c].n],
   postersDone |-> IF "postersDone" \in DOMAIN r.body THEN r.body.postersDone.n ELSE 0,
   submissionDate |-> r.today,
   createdAt |-> now]

\* the row createDailyReport inserts: the parsed body overridden with the
\* employee's identity and today's date; posters_done defaults to 0
NewReport(r, id) ==
  [id |-> id,
   employeeId |-> r.emp.employeeId,
   employeeName |-> r.emp.employeeName,
   counters |-> [c \in RequiredCounters |-> r.body[c].n],
   postersDone |-> IF "postersDone" \in DOMAIN r.body THEN r.body.postersDone.n ELSE 0,
   submissionDate |-> r.today,
   createdAt |-> now]

\* an integer column rejects a number with a fractional part
IntegerColumnsOk(b) ==
  \A c \in (RequiredCounters \cup {"postersDone"}) \cap DOMAIN b : b[c].whole

\* POST /api/reports/submit: createDailyReport and the answer
SubmitInsert(s) ==
  /\ req[s].pc = "insert"
  /\ IF IntegerColumnsOk(req[s].body)
       THEN /\ issued.report < MaxReports
            /\ issued' = [issued EXCEPT !.report = @ + 1]
            /\ dailyReports' = dailyReports \cup {NewReport(req[s], issued.report + 1)}
            /\ submitted' = submitted \cup
                 {[principal |-> req[s].userId, employeeId |-> req[s].emp.employeeId,
                   date |-> req[s].today, report |-> issued.report + 1]}
            /\ Answer(s, req[s], 200, "Report submitted successfully")
       ELSE /\ Answer(s, req[s], 500, "Internal server error")
            /\ UNCHANGED <<dailyReports, issued, submitted>>
  /\ UNCHANGED <<employees, admins, sessions, now, used, loggedOut>>

\* --------------------------------------------------------- admin routes
\* POST /api/admin/logout
AdminLogout(s) ==
  /\ Handling(s, "adminLogout")
  /\ DeleteSession(req[s].token)
  /\ Answer(s, Entered(s, GetAdmin(req[s].userId)), 200, "Logout successful")
  /\ loggedOut' = loggedOut \cup {req[s].token}
  /\ UNCHANGED <<employees, admins, dailyReports, now, issued, used, submitted>>

\* GET /api/admin/me
AdminMe(s) ==
  /\ Handling(s, "adminMe")
  /\ LET r == Entered(s, GetAdmin(req[s].userId)) IN
     IF GetAdmin(req[s].userId) = {}
       THEN Answer(s, r, 404, "Admin not found")
       ELSE Answer(s, r, 200, "")
  /\ UNCHANGED <<store, now, issued, used, submitted, loggedOut>>

\* GET /api/admin/reports: parseInt of page and limit never throws (NaN is
\* falsy and drops the clause); an Invalid Date throws in getDailyReports
AdminReports(s) ==
  /\ Handling(s, "reports")
  /\ LET r == [Entered(s, GetAdmin(req[s].userId)) EXCEPT
                 !.filters = ListFilters(req[s].body)] IN
     IF DateParamThrows(req[s].body)
       THEN Answer(s, r, 500, "Internal server error")
       ELSE \E rows \in GetDailyReports(r.filters) :
              Answer(s, [r EXCEPT !.rows = rows], 200, "")
  /\ UNCHANGED <<store, now, issued, used, submitted, loggedOut>>

\* GET /api/admin/reports/export
AdminExport(s) ==
  /\ Handling(s, "export")
  /\ LET r == [Entered(s, GetAdmin(req[s].userId)) EXCEPT
                 !.filters = ExportFilters(req[s].body)] IN
     IF DateParamThrows(req[s].body)
       THEN Answer(s, r, 500, "Internal server error")
       ELSE \E rows \in GetDailyReports(r.filters) :
              Answer(s, [r EXCEPT !.rows = rows, !.text = CsvExport(rows)], 200, "")
  /\ UNCHANGED <<store, now, issued, used, submitted, loggedOut>>

\* ----------------------------------------- storage operations of the admin
AdminOp == used.adm < MaxAdminOps /\ used' = [used EXCEPT !.adm = @ + 1]

\* createEmployee: the password is hashed; employee_id is unique
CreateEmployee(eid, name, pw, salt) ==
  /\ AdminOp
  /\ issued.employee < MaxEmployees
  /\ GetEmployeeByEmployeeId(eid) = {}
  /\ issued' = [issued EXCEPT !.employee = @ + 1]
  /\ employees' = employees \cup
       {[id |-> issued.employee + 1, employeeId |-> eid, employeeName |-> name,
         passwordHash |-> Hash(pw, salt)]}
  /\ Quiet
  /\ UNCHANGED <<admins, dailyReports, sessions, now, submitted, loggedOut>>

EmployeeUpdates ==
  {[employeeName |-> n] : n \in Names} \cup
  {[employeeId |-> e] : e \in EmployeeIds} \cup
  {[passwordHash |-> p] : p \in Passwords \cup {""}} \cup
  {[employeeId |-> e, employeeName |-> n] : e \in EmployeeIds, n \in Names}

\* the row after .set(updateData): a supplied, non-empty password is hashed
MergeEmployee(row, u, salt) ==
  [f \in DOMAIN row |->
     IF f \notin DOMAIN u THEN row[f]
     ELSE IF f # "passwordHash" THEN u[f]
     ELSE IF u[f] # "" THEN Hash(u[f], salt)
     ELSE [alg |-> "plain", salt |-> 0, of |-> u[f]]]

\* updateEmployee(id, updates)
UpdateEmployee(id, u, salt) ==
  /\ AdminOp
  /\ \E row \in GetEmployee(id) :
       /\ "employeeId" \in DOMAIN u =>
            \A e \in employees : e.employeeId = u.employeeId => e.id = id
       /\ employees' = (employees \ {row}) \cup {MergeEmployee(row, u, salt)}
  /\ Quiet
  /\ UNCHANGED <<admins, dailyReports, sessions, now, issued, submitted, loggedOut>>

\* deleteEmployee(id)
DeleteEmployee(id) ==
  /\ AdminOp
  /\ GetEmployee(id) # {}
  /\ employees' = {e \in employees : e.id # id}
  /\ Quiet
  /\ UNCHANGED <<admins, dailyReports, sessions, now, issued, submitted, loggedOut>>

ReportUpdates ==
  {[employeeId |-> e] : e \in EmployeeIds} \cup
  {[submissionDate |-> d] : d \in 0..1} \cup
  {[numberOfDials |-> 7]}

\* the row after .set(report): only the supplied columns change
MergeReport(row, u) ==
  [f \in DOMAIN row |->
     IF f = "counters"
       THEN [c \in RequiredCounters |-> IF c \in DOMAIN u THEN u[c] ELSE row.counters[c]]
     ELSE IF f \in DOMAIN u THEN u[f] ELSE row[f]]

\* updateDailyReport(id, report)
UpdateDailyReport(id, u) ==
  /\ AdminOp
  /\ \E row \in {r \in dailyReports : r.id = id} :
       dailyReports' = (dailyReports \ {row}) \cup {MergeReport(row, u)}
  /\ Quiet
  /\ UNCHANGED <<employees, admins, sessions, now, issued, submitted, loggedOut>>

\* deleteDailyReport(id)
DeleteDailyReport(id) ==
  /\ AdminOp
  /\ \E row \in {r \in dailyReports : r.id = id} :
       dailyReports' = dailyReports \ {row}
  /\ Quiet
  /\ UNCHANGED <<employees, admins, sessions, now, issued, submitted, loggedOut>>

\* ---------------------------------------------------------------- clock
TickSteps == {1, SessionTTL}

Tick(d) ==
  /\ used.tick < MaxTicks
  /\ now + d <= MaxTime
  /\ now' = now + d
  /\ used' = [used EXCEPT !.tick = @ + 1]
  /\ Quiet
  /\ UNCHANGED <<store, issued, submitted, loggedOut>>

\* ------------------------------------------------- failures of the store
\* getSession throws: the catch of the middleware answers
AuthenticateFault(s, kind, ep, h, b) ==
  /\ Free(s)
  /\ ExtractSessionId(h) # 0
  /\ Answer(s, [Idle EXCEPT !.endpoint = ep, !.token = ExtractSessionId(h),
                            !.malformed = Malformed(ep, b), !.fault = "getSession"],
            401, "Authentication failed")
  /\ UNCHANGED <<store, now, issued, used, submitted, loggedOut>>

\* the first statement of a login throws: the catch of the route answers
LoginFault(s, ep) ==
  /\ Free(s)
  /\ Answer(s, [Idle EXCEPT !.endpoint = ep, !.fault = "validate"],
            500, "Internal server error")
  /\ UNCHANGED <<store, now, issued, used, submitted, loggedOut>>

\* the statement a handler is waiting for throws: the catch of the route answers
HandlerFault(s) ==
  /\ req[s].pc # "idle"
  /\ Answer(s, [req[s] EXCEPT !.ran = TRUE, !.fault = req[s].pc],
            500, "Internal server error")
  /\ UNCHANGED <<store, now, issued, used, submitted, loggedOut>>

\* ------------------------------------------------------- specifications
Bearer(t) == [present |-> TRUE, bearer |-> TRUE, token |-> t]
Tokens    == 1..MaxSessions
ValidEmployeeLogin == [employeeId |-> "EMP001", password |-> "employee123"]
ValidAdminLogin    == [username |-> "admin", password |-> "admin123"]

\* two connections of employees who log in and submit, while days pass
NextRace ==
  \/ \E s \in Slots : EmployeeLogin(s, ValidEmployeeLogin)
  \/ \E s \in Slots : EmployeeLoginCreate(s)
  \/ \E s \in Slots, t \in Tokens : AuthenticateEmployee(s, "submit", Bearer(t), FullBody)
  \/ \E s \in Slots : SubmitGetEmployee(s)
  \/ \E s \in Slots : SubmitCheck(s)
  \/ \E s \in Slots : SubmitInsert(s)
  \/ Tick(1)

SpecRace == Init /\ [][NextRace]_vars

\* one connection of an employee who logs in and submits, while days pass and
\* the admin edits and deletes reports
NextSubmit ==
  \/ EmployeeLogin(1, ValidEmployeeLogin)
  \/ EmployeeLoginCreate(1)
  \/ \E t \in Tokens : AuthenticateEmployee(1, "submit", Bearer(t), FullBody)
  \/ SubmitGetEmployee(1)
  \/ SubmitCheck(1)
  \/ SubmitInsert(1)
  \/ \E id \in 1..MaxReports, u \in ReportUpdates : UpdateDailyReport(id, u)
  \/ \E id \in 1..MaxReports : DeleteDailyReport(id)
  \/ Tick(1)

SpecSubmit == Init /\ [][NextSubmit]_vars

\* the requests of NextAuth, NextInput and NextFault
Logins ==
  \/ EmployeeLogin(1, ValidEmployeeLogin)
  \/ EmployeeLoginCreate(1)
  \/ AdminLogin(1, ValidAdminLogin)
  \/ AdminLoginCreate(1)

Handlers ==
  \/ EmployeeLogout(1)
  \/ EmployeeMe(1)
  \/ SubmitGetEmployee(1)
  \/ SubmitCheck(1)
  \/ SubmitInsert(1)
  \/ AdminLogout(1)
  \/ AdminMe(1)
  \/ AdminReports(1)
  \/ AdminExport(1)

\* sessions: both kinds of principal log in, present tokens to every scoped
\* route and log out, over one connection, while sessions expire and are swept
\* and the admin deletes employees
NextAuth ==
  \/ Logins
  \/ \E h \in Headers :
        \/ AuthenticateEmployee(1, "employeeLogout", h, NoBody)
        \/ AuthenticateEmployee(1, "employeeMe", h, NoBody)
        \/ AuthenticateEmployee(1, "submit", h, FullBody)
  \/ \E h \in Headers :
        \/ AuthenticateAdmin(1, "adminLogout", h, NoBody)
        \/ AuthenticateAdmin(1, "adminMe", h, NoBody)
        \/ AuthenticateAdmin(1, "reports", h, NoFilter)
        \/ AuthenticateAdmin(1, "export", h, NoFilter)
  \/ Handlers
  \/ \E id \in 1..MaxEmployees : DeleteEmployee(id)
  \/ CleanExpiredSessions
  \/ \E d \in TickSteps : Tick(d)

SpecAuth == Init /\ [][NextAuth]_vars

\* credentials: every login body, while the admin creates, updates and
\* deletes employees
NextLogin ==
  \/ \E b \in EmployeeLoginBodies : EmployeeLogin(1, b)
  \/ EmployeeLoginCreate(1)
  \/ \E b \in AdminLoginBodies : AdminLogin(1, b)
  \/ AdminLoginCreate(1)
  \/ \E e \in EmployeeIds, n \in Names, p \in Passwords, salt \in Salts :
        CreateEmployee(e, n, p, salt)
  \/ \E id \in 1..MaxEmployees, u \in EmployeeUpdates, salt \in Salts :
        UpdateEmployee(id, u, salt)
  \/ \E id \in 1..MaxEmployees : DeleteEmployee(id)

SpecLogin == Init /\ [][NextLogin]_vars

\* inputs: every login body, submission body and report query, with the
\* token of a session
NextInput ==
  \/ \E b \in EmployeeLoginBodies : EmployeeLogin(1, b)
  \/ EmployeeLoginCreate(1)
  \/ \E b \in AdminLoginBodies : AdminLogin(1, b)
  \/ AdminLoginCreate(1)
  \/ \E t \in Tokens :
        \/ \E b \in SubmitBodies : AuthenticateEmployee(1, "submit", Bearer(t), b)
        \/ \E q \in Queries : AuthenticateAdmin(1, "reports", Bearer(t), q)
        \/ \E q \in Queries : AuthenticateAdmin(1, "export", Bearer(t), q)
  \/ SubmitGetEmployee(1)
  \/ SubmitCheck(1)
  \/ SubmitInsert(1)
  \/ AdminReports(1)
  \/ AdminExport(1)
  \/ Tick(1)

SpecInput == Init /\ [][NextInput]_vars

\* the requests of NextAuth with a store that may fail at any statement
NextFault ==
  \/ Logins
  \/ \E t \in Tokens :
        \/ AuthenticateEmployee(1, "employeeLogout", Bearer(t), NoBody)
        \/ AuthenticateEmployee(1, "employeeMe", Bearer(t), NoBody)
        \/ AuthenticateEmployee(1, "submit", Bearer(t), FullBody)
        \/ AuthenticateAdmin(1, "adminLogout", Bearer(t), NoBody)
        \/ AuthenticateAdmin(1, "adminMe", Bearer(t), NoBody)
        \/ AuthenticateAdmin(1, "reports", Bearer(t), NoFilter)
        \/ AuthenticateAdmin(1, "export", Bearer(t), NoFilter)
  \/ Handlers
  \/ \E t \in Tokens, ep \in EmployeeEndpoints :
        AuthenticateFault(1, "employee", ep, Bearer(t), FullBody)
  \/ \E t \in Tokens, ep \in AdminEndpoints :
        AuthenticateFault(1, "admin", ep, Bearer(t), NoFilter)
  \/ \E ep \in {"employeeLogin", "adminLogin"} : LoginFault(1, ep)
  \/ HandlerFault(1)
  \/ Tick(1)

SpecFault == Init /\ [][NextFault]_vars

\* report rows a store may hold when the admin queries it: submitted by either
\* employee, for either of two days, created at one of two instants
SeedRows ==
  {[id |-> id, employeeId |-> e,
    employeeName |-> IF e = "EMP001" THEN "John Doe" ELSE "Roe, Jane",
    counters |-> [c \in RequiredCounters |-> 1], postersDone |-> 0,
    submissionDate |-> d, createdAt |-> t] :
     id \in 1..MaxReports, e \in EmployeeIds, d \in 0..1, t \in 2..3}

\* a position of a seed row among those with other contents
Rank(r) == (IF r.employeeId = "EMP001" THEN 0 ELSE 4) + 2 * r.submissionDate + r.createdAt

\* the tables with n report rows; the ids, which are arbitrary uuids, number
\* the rows 1..n in the order of their contents
StoredReports(n) ==
  {{g[i] : i \in 1..n} :
     g \in {h \in [1..n -> SeedRows] :
              /\ \A i \in 1..n : h[i].id = i
              /\ \A i, j \in 1..n : i < j => Rank(h[i]) <= Rank(h[j])}}

\* the database some days after the setup, with the reports submitted so far
InitQuery ==
  /\ employees = {[id |-> 1, employeeId |-> "EMP001", employeeName |-> "John Doe",
                   passwordHash |-> Hash("employee123", 1)]}
  /\ admins = {[id |-> AdminUuid, username |-> "admin",
                passwordHash |-> Hash("admin123", 1)]}
  /\ dailyReports \in UNION {StoredReports(n) : n \in 0..MaxReports}
  /\ sessions = {}
  /\ now = ParseDate(2)
  /\ req = [s \in Slots |-> Idle]
  /\ last = NoResponse
  /\ issued = [employee |-> 1, report |-> Cardinality(dailyReports), session |-> 0]
  /\ used = [adm |-> 0, tick |-> 0]
  /\ submitted = {}
  /\ loggedOut = {}

\* every combination of the three filters
FilterQueries ==
  [employeeId : {""} \cup EmployeeIds,
   startDate : {Absent, Val(0), Val(1)}, endDate : {Absent, Val(0), Val(1)},
   page : {Absent}, limit : {Absent}]

\* the default page, the pages of one row, a filtered default page, and a
\* page of no rows
PagedQueries ==
  {NoFilter, [NoFilter EXCEPT !.employeeId = "EMP002", !.startDate = Val(1)]}
  \cup {[NoFilter EXCEPT !.page = pg, !.limit = Val(1)] : pg \in {Absent, Val(2)}}
  \cup {[NoFilter EXCEPT !.limit = Val(0)]}

\* the admin logs in and lists and exports the reports under every query
NextQuery ==
  \/ AdminLogin(1, ValidAdminLogin)
  \/ AdminLoginCreate(1)
  \/ \E t \in Tokens, q \in PagedQueries : AuthenticateAdmin(1, "reports", Bearer(t), q)
  \/ \E t \in Tokens, q \in FilterQueries : AuthenticateAdmin(1, "export", Bearer(t), q)
  \/ AdminReports(1)
  \/ AdminExport(1)

SpecQuery == InitQuery /\ [][NextQuery]_vars

\* session rows a store may hold one session lifetime after the setup: of the
\* employee or the admin, created at the setup, just after it, or just now
SeedSessions ==
  {[id |-> i, userId |-> p[1], userType |-> p[2],
    expiresAt |-> c + SessionTTL, createdAt |-> c] :
     i \in 1..(MaxSessions + 1),
     p \in {<<1, "employee">>, <<AdminUuid, "admin">>},
     c \in {0, 1, SessionTTL}}

\* the tables with n session rows, numbered 1..n
StoredSessions(n) ==
  {{g[i] : i \in 1..n} :
     g \in {h \in [1..n -> SeedSessions] : \A i \in 1..n : h[i].id = i}}

\* the database one session lifetime after the setup, with the sessions of the
\* logins so far
InitSweep ==
  /\ employees = {[id |-> 1, employeeId |-> "EMP001", employeeName |-> "John Doe",
                   passwordHash |-> Hash("employee123", 1)]}
  /\ admins = {[id |-> AdminUuid, username |-> "admin",
                passwordHash |-> Hash("admin123", 1)]}
  /\ dailyReports = {}
  /\ sessions \in UNION {StoredSessions(n) : n \in 0..(MaxSessions + 1)}
  /\ now = SessionTTL
  /\ req = [s \in Slots |-> Idle]
  /\ last = NoResponse
  /\ issued = [employee |-> 1, report |-> 0, session |-> Cardinality(sessions)]
  /\ used = [adm |-> 0, tick |-> 0]
  /\ submitted = {}
  /\ loggedOut = {}

\* the hourly sweep while time passes, tokens are presented and the admin logs out
NextSweep ==
  \/ CleanExpiredSessions
  \/ \E d \in TickSteps : Tick(d)
  \/ \E t \in 1..(MaxSessions + 1) : AuthenticateEmployee(1, "employeeMe", Bearer(t), NoBody)
  \/ EmployeeMe(1)
  \/ \E t \in 1..(MaxSessions + 1) : AuthenticateAdmin(1, "adminLogout", Bearer(t), NoBody)
  \/ AdminLogout(1)

SpecSweep == InitSweep /\ [][NextSweep]_vars

\* a run of the sweep throws: the catch of the timer callback logs the error,
\* nothing is deleted and the timer stays armed
SweepFault ==
  /\ req' = req
  /\ last' = [NoResponse EXCEPT !.endpoint = "sweep", !.fault = "cleanExpiredSessions"]
  /\ UNCHANGED <<store, now, issued, used, submitted, loggedOut>>

\* the sweep beside the requests, with runs of the sweep that fail
NextSweepLive ==
  \/ NextSweep
  \/ SweepFault

\* the timer keeps firing and the store does not fail for ever: a sweep that
\* has something to delete eventually runs to its end
SpecSweepLive == InitSweep /\ [][NextSweepLive]_vars /\ WF_vars(CleanExpiredSessions)

\* sessions of logins made right at the setup, with ids apart from those the
\* logins to come will get
EarlierSessions ==
  {[id |-> MaxSessions + i, userId |-> p[1], userType |-> p[2],
    expiresAt |-> SessionTTL, createdAt |-> 0] :
     i \in 1..MaxSessions, p \in {<<1, "employee">>, <<AdminUuid, "admin">>}}

\* the database right after the setup and the first logins
InitSessions ==
  /\ employees = {[id |-> 1, employeeId |-> "EMP001", employeeName |-> "John Doe",
                   passwordHash |-> Hash("employee123", 1)]}
  /\ admins = {[id |-> AdminUuid, username |-> "admin",
                passwordHash |-> Hash("admin123", 1)]}
  /\ dailyReports = {}
  /\ sessions \in {ss \in SUBSET EarlierSessions :
                     \A x, y \in ss : x.id = y.id => x = y}
  /\ now = 0
  /\ req = [s \in Slots |-> Idle]
  /\ last = NoResponse
  /\ issued = [employee |-> 1, report |-> 0, session |-> 0]
  /\ used = [adm |-> 0, tick |-> 0]
  /\ submitted = {}
  /\ loggedOut = {}

\* both principals log in again, present old and new tokens and log out
NextSessions ==
  \/ Logins
  \/ \E t \in 1..(2 * MaxSessions) :
        \/ AuthenticateEmployee(1, "employeeLogout", Bearer(t), NoBody)
        \/ AuthenticateEmployee(1, "employeeMe", Bearer(t), NoBody)
        \/ AuthenticateAdmin(1, "adminLogout", Bearer(t), NoBody)
        \/ AuthenticateAdmin(1, "adminMe", Bearer(t), NoBody)
  \/ EmployeeLogout(1)
  \/ EmployeeMe(1)
  \/ AdminLogout(1)
  \/ AdminMe(1)
  \/ Tick(1)

SpecSessions == InitSessions /\ [][NextSessions]_vars

\* ================================================================ claims
SameKey(a, b) == a.employeeId = b.employeeId /\ a.submissionDate = b.submissionDate

\* C1: under any interleaving of concurrent submissions of one employee for
\* one date, at most one submission succeeds and at most one report row of
\* that (employeeId, submissionDate) is stored.
C1_AtMostOnePerDay ==
  /\ \A r1, r2 \in dailyReports : SameKey(r1, r2) => r1 = r2
  /\ \A h1, h2 \in submitted :
        (h1.employeeId = h2.employeeId /\ h1.date = h2.date) => h1 = h2

\* the request was received after a submission for its (employeeId, date) succeeded
AfterSuccess(r) ==
  \E h \in submitted : /\ h.report \in r.seen
                       /\ h.employeeId = r.emp.employeeId
                       /\ h.date = r.today

\* the report of such an earlier submission is still stored under that key
StillStored(r) ==
  \E row \in dailyReports : /\ row.id \in r.seen
                            /\ row.employeeId = r.emp.employeeId
                            /\ row.submissionDate = r.today

\* C2 as stated: once a submission for (E, D) has succeeded, every later
\* submission for (E, D) is answered 409.
C2_LaterSubmitConflicts ==
  (last.endpoint = "submit" /\ last.emp # NoEmp /\ AfterSuccess(last))
     => last.status = 409

\* C2 amended: a later submission for (E, D) is answered 409 and stores
\* nothing when the report of the earlier one is still stored under (E, D)
\* at the time the later one checks for it.
C2_LaterSubmitConflictsWhileStored ==
  [][\A s \in Slots :
       (req[s].pc = "check" /\ req'[s].pc # "check" /\ AfterSuccess(req[s])
          /\ StillStored(req[s]))
        => (last'.status = 409 /\ dailyReports' = dailyReports)]_vars

C2_Witness ==
  last.endpoint = "submit" /\ last.status = 409 /\ AfterSuccess(last) /\ StillStored(last)

\* C3: a session created at t0 expires at t0 + 7 days; its token resolves at
\* every time before the expiry and resolves to nothing from the expiry on.
C3_ResolvesUntilExpiry ==
  \A x \in sessions :
    /\ x.expiresAt = x.createdAt + SessionTTL
    /\ now < x.expiresAt  => GetSession(x.id) = {x}
    /\ now >= x.expiresAt => GetSession(x.id) = {}

\* C4: a token of the wrong kind is answered 401 on every scoped route and
\* the handler of the route does not run.
C4_WrongKindIsUnauthenticated ==
  last.found = "wrongKind" => (last.status = 401 /\ ~last.ran)

C4_Witness ==
  /\ last.found = "wrongKind" /\ last.status = 401
  /\ last.endpoint \in AdminEndpoints

Denied(r) == r.found \in {"noToken", "unknown", "expired", "wrongKind"}

C6_LoggedOutTokenRejected ==
  [][/\ \A s \in Slots :
          (req[s].pc = "idle" /\ req'[s].pc # "idle" /\ req'[s].endpoint \in EmployeeEndpoints \cup AdminEndpoints)
            => req'[s].token \notin loggedOut
     /\ (last'.endpoint \in EmployeeEndpoints \cup AdminEndpoints
           /\ ~last'.ran /\ last'.token \in loggedOut)
            => last'.status = 401]_vars

C6_Witness ==
  /\ last.token \in loggedOut /\ last.status = 401 /\ ~last.ran
  /\ last.endpoint \in EmployeeEndpoints \cup AdminEndpoints

\* C7 as stated: on every scoped route a request whose session is valid but
\* whose principal record is gone is answered 404.
C7_OrphanIsNotFound == last.orphan => last.status = 404

\* C7 amended: GET /api/employee/me and POST /api/reports/submit answer 404
\* and touch nothing when the employee record is absent as they load it;
\* logout does not load it, answers 200 and deletes the session.
C7_OrphanNotFoundWhereLoaded ==
  [][last'.orphan =>
       IF last'.endpoint \in {"employeeMe", "submit"}
         THEN last'.status = 404 /\ last'.message = "Employee not found"
              /\ UNCHANGED <<store, issued, submitted>>
         ELSE last'.endpoint = "employeeLogout" /\ last'.status = 200
              /\ (\A x \in sessions' : x.id # last'.token)
              /\ UNCHANGED <<employees, admins, dailyReports, issued, submitted>>]_vars

C7_Witness == last.orphan /\ last.endpoint = "submit" /\ last.status = 404

Rejected(r) ==
  r.endpoint \in {"employeeLogin", "adminLogin"} /\ r.found \in {"noAccount", "badPassword"}

\* C8: a login with an identifier that does not exist and a login with a
\* wrong password receive the same 401 response and change nothing.
C8_LoginRejectionsIndistinguishable ==
  [][/\ Rejected(last') => (last'.status = 401 /\ UNCHANGED <<store, issued, loggedOut>>)
     /\ (Rejected(last) /\ Rejected(last') /\ last.endpoint = last'.endpoint)
          => (last'.status = last.status /\ last'.message = last.message)]_vars

C8_Witness ==
  last.endpoint = "employeeLogin" /\ last.found = "noAccount" /\ last.status = 401

\* C9: every request with malformed or missing input is answered 400.
C9_MalformedIsBadRequest ==
  (last.malformed /\ last.found \in {"ok", "n/a"}) => last.status = 400

\* C10: every failure of a store operation is answered 500 with the generic
\* internal-error message, the session lookup included.
C10_StoreFailureIsInternalError ==
  last.fault # "none"
    => (last.status = 500 /\ last.message = "Internal server error")

\* the step is the arrival of a request to a scoped route with header h
ArrivesWith(h) ==
  \/ \E ep \in {"employeeLogout", "employeeMe"} : AuthenticateEmployee(1, ep, h, NoBody)
  \/ AuthenticateEmployee(1, "submit", h, FullBody)
  \/ \E ep \in {"adminLogout", "adminMe"} : AuthenticateAdmin(1, ep, h, NoBody)
  \/ \E ep \in {"reports", "export"} : AuthenticateAdmin(1, ep, h, NoFilter)

\* C11: a request whose Authorization header carries a token without the
\* "Bearer " scheme prefix is answered 401 on every scoped route.
C11_BearerSchemeRequired ==
  [][\A h \in Headers :
       (h.present /\ ~h.bearer /\ ArrivesWith(h)) => last'.status = 401]_vars

\* the body carries the nine required counters, and posters done if given,
\* as non-negative integers
CountersBody(b) ==
  /\ \A c \in RequiredCounters :
        c \in DOMAIN b /\ b[c].t = "number" /\ b[c].whole /\ b[c].n >= 0
  /\ "postersDone" \in DOMAIN b =>
        b.postersDone.t = "number" /\ b.postersDone.whole /\ b.postersDone.n >= 0

\* the date a submission in flight is for
SubmissionDay(r) == IF r.pc = "handler" THEN DateOf(now) ELSE r.today

\* the employee of the session of request r has no report stored for day d
NoReportFor(r, d) ==
  \A e \in GetEmployee(r.userId) :
    \A row \in dailyReports : ~(row.employeeId = e.employeeId /\ row.submissionDate = d)

\* C12: an authenticated employee without a report for the current date who
\* submits the nine required non-negative counters (posters done optional)
\* is answered with success, and exactly one report is created, with the
\* submitted counters and the current date.
C12_CountersBodyAccepted ==
  [][(/\ req[1].endpoint = "submit" /\ req[1].pc \in {"handler", "check", "insert"}
      /\ req'[1].pc = "idle"
      /\ CountersBody(req[1].body)
      /\ GetEmployee(req[1].userId) # {}
      /\ NoReportFor(req[1], SubmissionDay(req[1])))
     => /\ last'.status = 200
        /\ \E row \in dailyReports' \ dailyReports :
              /\ dailyReports' = dailyReports \cup {row}
              /\ row.submissionDate = SubmissionDay(req[1])
              /\ \A c \in RequiredCounters : row.counters[c] = req[1].body[c].n]_vars

\* the stored reports that satisfy every supplied filter of f
Satisfying(f) ==
  {r \in dailyReports :
     /\ f.employeeId # "" => r.employeeId = f.employeeId
     /\ f.startDate.k = "value" => r.submissionDate >= f.startDate.v
     /\ f.endDate.k = "value" => r.submissionDate <= f.endDate.v}

\* the response is the result of a query that pagination does not cut
Unpaged(r) ==
  /\ r.endpoint \in {"reports", "export"} /\ r.status = 200
  /\ r.filters.offset = 0
  /\ r.filters.limit = 0 \/ Cardinality(Satisfying(r.filters)) <= r.filters.limit

\* C13: the query returns exactly the reports that satisfy every supplied
\* filter (employee id equal, submission date within the inclusive range),
\* each once, and every stored report when no filter is supplied.
C13_QueryReturnsMatching ==
  Unpaged(last) =>
    /\ {last.rows[i] : i \in 1..Len(last.rows)} = Satisfying(last.filters)
    /\ Len(last.rows) = Cardinality(Satisfying(last.filters))
    /\ (last.filters.employeeId = "" /\ last.filters.startDate = Absent
          /\ last.filters.endDate = Absent) => Len(last.rows) = Cardinality(dailyReports)

C13_Witness ==
  /\ Unpaged(last) /\ last.filters.employeeId # ""
  /\ last.filters.startDate.k = "value" /\ last.filters.endDate.k = "value"
  /\ Len(last.rows) = 1 /\ Cardinality(dailyReports) = 2

\* C14: the result of a query is sorted by submission date descending and,
\* among equal dates, by creation time descending; with no filter the sorted
\* result contains all reports.
C14_QuerySorted ==
  (last.endpoint \in {"reports", "export"} /\ last.status = 200) =>
    /\ \A i, j \in 1..Len(last.rows) :
          i < j => \/ last.rows[i].submissionDate > last.rows[j].submissionDate
                   \/ /\ last.rows[i].submissionDate = last.rows[j].submissionDate
                      /\ last.rows[i].createdAt >= last.rows[j].createdAt
    /\ (Unpaged(last) /\ last.filters.employeeId = "" /\ last.filters.startDate = Absent
          /\ last.filters.endDate = Absent)
         => {last.rows[i] : i \in 1..Len(last.rows)} = dailyReports

C14_Witness ==
  /\ last.endpoint = "reports" /\ last.status = 200 /\ Len(last.rows) = 2
  /\ last.rows[1].submissionDate = last.rows[2].submissionDate
  /\ last.rows[1].createdAt > last.rows[2].createdAt

\* the plaintexts that verify against the stored hash of row e
Verifying(e) == {p \in Passwords \cup {""} : Compare(p, e.passwordHash)}

\* C15: an employee update that omits the password leaves the stored hash
\* unchanged, so that the previous password still verifies; an update that
\* supplies a password replaces the hash so that only the new password
\* verifies.
C15_UpdateKeepsOrReplacesPassword ==
  [][\A id \in 1..MaxEmployees, u \in EmployeeUpdates, salt \in Salts :
       UpdateEmployee(id, u, salt) =>
         \A old \in GetEmployee(id) : \A new \in {e \in employees' : e.id = id} :
            IF "passwordHash" \notin DOMAIN u
              THEN new.passwordHash = old.passwordHash /\ Verifying(new) = Verifying(old)
              ELSE Verifying(new) = {u.passwordHash}]_vars

\* C16: for every account created with plaintext p, credential validation
\* with the account's identifier and p returns the account, and validation
\* with any other plaintext returns a rejection.
C16_CreatedCredentialsValidate ==
  [][/\ \A eid \in EmployeeIds, name \in Names, pw \in Passwords, salt \in Salts :
          CreateEmployee(eid, name, pw, salt) =>
            \A p \in Passwords \cup {""} :
               ValidateEmployeeCredentials(eid, p)' =
                 IF p = pw THEN {e \in employees' : e.id = issued.employee + 1} ELSE {}
     /\ \A a \in admins' : \A p \in Passwords \cup {""} :
          ValidateAdminCredentials(a.username, p)' = IF p = "admin123" THEN {a} ELSE {}]_vars


\* the comma-separated fields of a line
Fields(line) == Cardinality({k \in 1..Len(line) : line[k] = ","}) + 1

\* C17: the CSV export is the fixed header row followed by exactly one line
\* per report matching the filters, in query order, and every data line has
\* exactly 13 comma-separated fields, for every stored employee id and name.
C17_CsvOneLineOf13Fields ==
  (last.endpoint = "export" /\ last.status = 200) =>
    /\ last.text[1] = CsvHeader /\ Fields(CsvHeader) = 13
    /\ Len(last.text) = 1 + Cardinality(Satisfying(last.filters))
    /\ \A i \in 1..Len(last.rows) :
          /\ Fields(last.text[i + 1]) = 13
          /\ last.text[i + 1][1] = ToString(last.rows[i].submissionDate)

\* C18: in every reachable state, after any sequence of submissions and of
\* report updates and deletions by the admin, no two stored reports share the
\* same (employeeId, submissionDate) pair.
C18_NoDuplicatePair ==
  \A r1 \in dailyReports : \A r2 \in dailyReports \ {r1} : ~SameKey(r1, r2)

\* a counter of the body is a negative number or a number that is not an integer
BadCounter(b) ==
  \E c \in (RequiredCounters \cup {"postersDone"}) \cap DOMAIN b :
     b[c].t = "number" /\ (b[c].n < 0 \/ ~b[c].whole)

\* C19: a submission in which a counter is negative or not an integer is
\* answered 400 and nothing is written, so that every counter of every stored
\* report is a non-negative integer.
C19_BadCounterIsBadRequest ==
  [][/\ (req[1].endpoint = "submit" /\ req[1].pc # "idle" /\ req'[1].pc = "idle"
           /\ BadCounter(req[1].body))
        => (last'.status = 400 /\ UNCHANGED store)
     /\ \A r \in dailyReports' : \A c \in RequiredCounters : r.counters[c] >= 0]_vars

\* C20: a sweep at time t deletes every session whose expiry is <= t and
\* changes nothing else: the sessions with a later expiry and the employee,
\* admin and report records are left as they are.
C20_SweepDeletesExpiredOnly ==
  [][CleanExpiredSessions =>
       /\ \A x \in sessions : x.expiresAt <= now => x \notin sessions'
       /\ \A x \in sessions : x.expiresAt > now => x \in sessions'
       /\ sessions' \subseteq sessions
       /\ UNCHANGED <<employees, admins, dailyReports>>]_vars

\* a sweep has deleted a session and kept another
C20_Witness ==
  /\ loggedOut = {} /\ sessions # {} /\ Cardinality(sessions) < issued.session
  /\ \A x \in sessions : x.expiresAt > now

\* C21: every session row whose expiry has passed is eventually deleted, also
\* when runs of the sweep fail in between.
C21_ExpiredEventuallyDeleted ==
  \A i \in 1..(MaxSessions + 1) :
    (\E x \in sessions : x.id = i /\ x.expiresAt < now)
      ~> (\A x \in sessions : x.id # i)

\* every session has been deleted by sweeps, the last one after its expiry had passed
C21_Witness ==
  /\ issued.session > 1 /\ sessions = {} /\ loggedOut = {}
  /\ now > SessionTTL /\ req[1].pc = "idle"

\* C22: a principal may hold several sessions at once: a login adds a session
\* and leaves every earlier one in place, and a logout deletes the session of
\* its token only, every other session resolving as before.
C22_SessionsIndependent ==
  [][/\ (EmployeeLoginCreate(1) \/ AdminLoginCreate(1))
          => /\ sessions \subseteq sessions'
             /\ Cardinality(sessions') = Cardinality(sessions) + 1
             /\ \A x \in sessions : GetSession(x.id)' = GetSession(x.id)
     /\ (EmployeeLogout(1) \/ AdminLogout(1))
          => /\ sessions' = {x \in sessions : x.id # req[1].token}
             /\ \A x \in sessions :
                  x.id # req[1].token => GetSession(x.id)' = GetSession(x.id)]_vars

\* the employee has logged out with one token and another session of theirs
\* still resolves
C22_Witness ==
  /\ last.endpoint = "employeeLogout" /\ last.status = 200
  /\ \E x \in sessions : x.userType = "employee" /\ GetSession(x.id) = {x}

\* the orders of the filtered reports by submission date descending, then
\* creation time descending
FullResults(f) ==
  {s \in [1..Cardinality(Satisfying(f)) -> Satisfying(f)] :
     \A i, j \in 1..Cardinality(Satisfying(f)) :
        i < j => /\ s[i] # s[j]
                 /\ \/ s[i].submissionDate > s[j].submissionDate
                    \/ /\ s[i].submissionDate = s[j].submissionDate
                       /\ s[i].createdAt >= s[j].createdAt}

\* the rows at positions (p-1)*l+1 .. p*l of s
PageOf(s, p, l) == SubSeq(s, (p - 1) * l + 1, IF p * l < Len(s) THEN p * l ELSE Len(s))

\* C23: for page p >= 1 and limit l >= 0 (1 and 25 when absent) the listing
\* returns exactly the rows at positions (p-1)*l+1 .. p*l of the filtered,
\* ordered result: at most l rows, none for l = 0.
C23_PageIsSliceOfResult ==
  [][(/\ req[1].pc = "handler" /\ req[1].endpoint = "reports" /\ req'[1].pc = "idle"
      /\ last'.status = 200
      /\ req[1].body.page.k # "garbage" /\ req[1].body.limit.k # "garbage")
     => LET pg == IF req[1].body.page.k = "absent" THEN 1 ELSE req[1].body.page.v
            lm == IF req[1].body.limit.k = "absent" THEN 25 ELSE req[1].body.limit.v
        IN  /\ Len(last'.rows) <= lm
            /\ \E s \in FullResults(last'.filters) : last'.rows = PageOf(s, pg, lm)]_vars

\* C24: the sweep and the lookup agree on which sessions are expired: a sweep
\* at time t deletes no session that a lookup of its token at the same time t
\* still returns, t equal to the session's expiry included.
C24_SweepAgreesWithLookup ==
  [][CleanExpiredSessions =>
       \A x \in sessions \ sessions' : GetSession(x.id) = {}]_vars

\* ------------------------------------------- employee ids that change hands
\* the report a former employee, id 1 and since deleted, submitted today as
\* EMP001
FormerReport ==
  [id |-> 1, employeeId |-> "EMP001", employeeName |-> "John Doe",
   counters |-> [c \in RequiredCounters |-> 1], postersDone |-> 0,
   submissionDate |-> 0, createdAt |-> 0]

\* the database after the setup, or later the same day when the first
\* employee has submitted and been deleted and a second one been created
InitRekey ==
  \/ Init
  \/ /\ employees = {[id |-> 2, employeeId |-> "EMP002", employeeName |-> "Jane Roe",
                      passwordHash |-> Hash("employee123", 1)]}
     /\ admins = {[id |-> AdminUuid, username |-> "admin",
                   passwordHash |-> Hash("admin123", 1)]}
     /\ dailyReports = {FormerReport}
     /\ sessions = {}
     /\ now = 0
     /\ req = [s \in Slots |-> Idle]
     /\ last = NoResponse
     /\ issued = [employee |-> 2, report |-> 1, session |-> 0]
     /\ used = [adm |-> 0, tick |-> 0]
     /\ submitted = {[principal |-> 1, employeeId |-> "EMP001", date |-> 0, report |-> 1]}
     /\ loggedOut = {}

\* an employee logs in and submits, while days pass and the admin changes
\* the employeeId of an employee
NextRekey ==
  \/ \E e \in EmployeeIds : EmployeeLogin(1, [employeeId |-> e, password |-> "employee123"])
  \/ EmployeeLoginCreate(1)
  \/ \E t \in Tokens : AuthenticateEmployee(1, "submit", Bearer(t), FullBody)
  \/ SubmitGetEmployee(1)
  \/ SubmitCheck(1)
  \/ SubmitInsert(1)
  \/ \E id \in 1..MaxEmployees, e \in EmployeeIds :
        UpdateEmployee(id, [employeeId |-> e], 1)
  \/ Tick(1)

SpecRekey == InitRekey /\ [][NextRekey]_vars

\* C25: for every employee principal and every date at most one submission of
\* that principal succeeds on that date, also when the admin changes the
\* employee's employeeId between two submissions.
C25_OnePerPrincipalAndDate ==
  \A h1, h2 \in submitted :
     (h1.principal = h2.principal /\ h1.date = h2.date) => h1 = h2

\* C26: a submission is answered 409 only if the principal who submits
\* already has a successful submission for the current date, whoever held
\* the principal's employeeId before.
C26_ConflictOnlyAfterOwnSubmission ==
  [][(req[1].pc = "check" /\ last'.status = 409)
       => \E h \in submitted : h.principal = req[1].userId /\ h.date = req[1].today]_vars

\* C27: the employeeId, employeeName and submissionDate of a report that a
\* submission stores are those of the employee record of the session and the
\* server's date of the submission, whatever the body carries in these fields.
C27_IdentityFromSessionAndClock ==
  [][(req[1].pc = "insert" /\ last'.status = 200)
       => \E row \in dailyReports' \ dailyReports, e \in GetEmployee(req[1].userId) :
            /\ dailyReports' = dailyReports \cup {row}
            /\ row.employeeId = e.employeeId
            /\ row.employeeName = e.employeeName
            /\ row.submissionDate = req[1].today
            /\ row.submissionDate \in {DateOf(t) : t \in 0..now}
            /\ req[1].body.employeeId # Str(row.employeeId)
            /\ req[1].body.employeeName # Str(row.employeeName)]_vars

\* a report is stored under the employee's own identity and a later day than
\* the first, submitted with a body that names another employee and date
C27_Witness ==
  /\ last.endpoint = "submit" /\ last.status = 200
  /\ \E h \in submitted, row \in dailyReports :
       /\ row.id = h.report /\ h.principal = 1 /\ h.date = 1
       /\ row.employeeId = "EMP001" /\ row.employeeName = "John Doe"
       /\ row.submissionDate = 1
       /\ FullBody.employeeId = Str("EMP002")

\* ------------------------------------------------------ the setup scripts
\* a password column written as given, without bcrypt.hash
Raw(p) == [alg |-> "plain", salt |-> 0, of |-> p]

\* both setup scripts insert the admin 'admin' and the employee EMP001; an
\* insert that violates the unique username or employee_id is skipped
SetupRows(adminHash, employeeHash) ==
  /\ GetEmployeeByEmployeeId("EMP001") = {} => issued.employee < MaxEmployees
  /\ GetAdminByUsername("admin") = {} \/ GetEmployeeByEmployeeId("EMP001") = {}
  /\ admins' = IF GetAdminByUsername("admin") # {} THEN admins
               ELSE admins \cup {[id |-> AdminUuid, username |-> "admin",
                                  passwordHash |-> adminHash]}
  /\ IF GetEmployeeByEmployeeId("EMP001") # {}
       THEN UNCHANGED <<employees, issued>>
       ELSE /\ issued' = [issued EXCEPT !.employee = @ + 1]
            /\ employees' = employees \cup
                 {[id |-> issued.employee + 1, employeeId |-> "EMP001",
                   employeeName |-> "John Doe", passwordHash |-> employeeHash]}
  /\ Quiet
  /\ UNCHANGED <<dailyReports, sessions, now, used, submitted, loggedOut>>

\* setupProductionData: storage.createAdmin and storage.createEmployee hash
SetupProductionData(salt) ==
  SetupRows(Hash("admin123", salt), Hash("employee123", salt))

\* setupDatabase of the deployment guide: db.insert with the password as
\* written in the script
SetupDatabase ==
  SetupRows(Raw("admin123"), Raw("employee123"))

\* the empty database before any setup script has run
InitSetup ==
  /\ employees = {}
  /\ admins = {}
  /\ dailyReports = {}
  /\ sessions = {}
  /\ now = 0
  /\ req = [s \in Slots |-> Idle]
  /\ last = NoResponse
  /\ issued = [employee |-> 0, report |-> 0, session |-> 0]
  /\ used = [adm |-> 0, tick |-> 0]
  /\ submitted = {}
  /\ loggedOut = {}

\* the setup scripts are run, the default accounts log in and the admin
\* creates, updates and deletes employees
NextSetup ==
  \/ \E salt \in Salts : SetupProductionData(salt)
  \/ SetupDatabase
  \/ EmployeeLogin(1, ValidEmployeeLogin)
  \/ EmployeeLoginCreate(1)
  \/ AdminLogin(1, ValidAdminLogin)
  \/ AdminLoginCreate(1)
  \/ \E e \in EmployeeIds, p \in Passwords, salt \in Salts :
        CreateEmployee(e, "Jane Roe", p, salt)
  \/ \E id \in 1..MaxEmployees, p \in Passwords \cup {""}, salt \in Salts :
        UpdateEmployee(id, [passwordHash |-> p], salt)
  \/ \E id \in 1..MaxEmployees : DeleteEmployee(id)

SpecSetup == InitSetup /\ [][NextSetup]_vars

\* C28: every stored employee and admin passwordHash is the output of the
\* hash function on a plaintext: no account creation, account update or setup
\* script leaves a raw plaintext password or an empty string stored.
C28_EveryPasswordHashed ==
  \A a \in employees \cup admins :
     a.passwordHash.alg = "bcrypt" /\ a.passwordHash.of # ""

\* ------------------------------------------- logins and the session table
\* every login body is posted while earlier sessions exist, days pass and the
\* admin deletes employees
NextSignIn ==
  \/ \E b \in EmployeeLoginBodies : EmployeeLogin(1, b)
  \/ EmployeeLoginCreate(1)
  \/ \E b \in AdminLoginBodies : AdminLogin(1, b)
  \/ AdminLoginCreate(1)
  \/ \E id \in 1..MaxEmployees : DeleteEmployee(id)
  \/ Tick(1)

SpecSignIn == InitSessions /\ [][NextSignIn]_vars

\* the kind of session a login route creates
KindOf(endpoint) == IF endpoint = "employeeLogin" THEN "employee" ELSE "admin"

\* C29: a login request changes the session table only on success: a rejected
\* login creates no session, and a successful employee (admin) login adds
\* exactly one session, of the authenticated account's id and of kind
\* employee (admin), and leaves every existing session as it was.
C29_LoginAddsOneSessionOnSuccess ==
  [][/\ (req[1].pc = "idle" /\ req'[1].pc = "create")
          => /\ sessions' = sessions
             /\ req'[1].found = "ok"
             /\ IF req'[1].endpoint = "employeeLogin"
                  THEN \E e \in employees : e.id = req'[1].userId
                  ELSE \E a \in admins : a.id = req'[1].userId
     /\ (last'.endpoint \in {"employeeLogin", "adminLogin"} /\ last'.status # 200)
          => sessions' = sessions
     /\ (last'.endpoint \in {"employeeLogin", "adminLogin"} /\ last'.status = 200)
          => /\ req[1].pc = "create"
             /\ \E x \in sessions' \ sessions :
                  /\ sessions' = sessions \cup {x}
                  /\ \A y \in sessions : y.id # x.id
                  /\ x.id = last'.token
                  /\ x.userId = req[1].userId
                  /\ x.userType = KindOf(req[1].endpoint)]_vars

\* a login has been rejected without a change of the session table, and a
\* login of the employee has succeeded while an earlier session of theirs exists
C29_Witness ==
  /\ last.endpoint = "employeeLogin" /\ last.status = 200
  /\ \E x, y \in sessions :
       /\ x.id = last.token /\ x.userId = 1 /\ x.userType = "employee"
       /\ y.id # x.id /\ y.userId = 1

\* ------------------------------------------------- the client's session
\* the tokens held in the localStorage of the browsers that logged in:
\* setSession in onSuccess of the login mutation, clearSession in onSuccess of
\* the logout mutation only. apiRequest rejects on an answer that is not 2xx,
\* so a logout answered 401 runs no handler of the mutation.
ClientSessions == {t \in 1..issued.session : t \notin loggedOut}

\* logout(): the mutation posts to the logout route of the stored session's
\* kind with the stored token
LogoutMutate(t) ==
  /\ t \in ClientSessions
  /\ AuthenticateEmployee(1, "employeeLogout", Bearer(t), NoBody)

\* the query of useAuth for the logged-in employee
MeQuery(t) ==
  /\ t \in ClientSessions
  /\ AuthenticateEmployee(1, "employeeMe", Bearer(t), NoBody)

\* the browser of an employee: login, the query for the employee, logout,
\* while sessions expire and are swept
NextClient ==
  \/ \E e \in EmployeeIds : EmployeeLogin(1, [employeeId |-> e, password |-> "employee123"])
  \/ EmployeeLoginCreate(1)
  \/ \E t \in Tokens : MeQuery(t)
  \/ EmployeeMe(1)
  \/ \E t \in Tokens : LogoutMutate(t)
  \/ EmployeeLogout(1)
  \/ CleanExpiredSessions
  \/ \E d \in TickSteps : Tick(d)

\* the server answers every request it has accepted
SpecClient ==
  Init /\ [][NextClient]_vars /\ WF_vars(EmployeeLogout(1)) /\ WF_vars(EmployeeMe(1))

\* the logout mutation of the browser that holds t has posted its request
LogoutInvoked(t) ==
  /\ t \in ClientSessions
  /\ \/ req[1].endpoint = "employeeLogout" /\ req[1].token = t
     \/ last.endpoint = "employeeLogout" /\ last.token = t

\* C30: whenever the user invokes logout, the client eventually holds no
\* stored session, whether the token is still valid, expired or deleted.
C30_LogoutClearsClientSession ==
  \A t \in Tokens : LogoutInvoked(t) ~> (t \notin ClientSessions)
====
